---- MODULE Spec2Model ----
(***************************************************************************)
(* Model of crawler.py: the ledger reader (urls_crawled_in_file,           *)
(* urls_crawled_in_dir), the content extractor (crawl), the result writer  *)
(* (save_result), link discovery (get_links), the flock helpers and the    *)
(* orchestrator loop of main, run by several crawler instances on one      *)
(* ledger directory.                                                       *)
(*                                                                         *)
(* Strings are sequences of atoms.  An atom is one character, or one of    *)
(* the fixed literals of save_result's line template ("locationLong",      *)
(* "<title>", the formatted date, ...), which contain no '^', no newline   *)
(* and no leading or trailing white space.                                 *)
(***************************************************************************)
EXTENDS Integers, Sequences, FiniteSets, TLC

(***************************************************************************)
(* Bounds of the model.                                                    *)
(***************************************************************************)
\* number of seed URLs the seed store returns
MaxSeeds == 3
MaxAnchors == 2
\* longest file (in lines) of the directories drawn for the ledger reader
MaxFileLines == 3

(***************************************************************************)
(* String helpers: str.strip, str.split, file.readlines, substring test.   *)
(***************************************************************************)
SEP == "^"
NL == "\n"

IsSpace(c) == c \in {" ", "\n", "\t"}

\* str.strip(): what lies between the first and the last character that is
\* not white space
Strip(s) ==
  LET keep == {k \in 1..Len(s) : ~IsSpace(s[k])}
  IN  IF keep = {} THEN <<>>
      ELSE SubSeq(s, CHOOSE k \in keep : \A m \in keep : k <= m,
                     CHOOSE k \in keep : \A m \in keep : m <= k)

\* the positions of character c in s, and the n-th of them (0 before the
\* first one)
Positions(s, c) == {k \in 1..Len(s) : s[k] = c}
NthPosition(s, c, n) ==
  LET at == Positions(s, c)
  IN  IF n = 0 THEN 0 ELSE CHOOSE k \in at : Cardinality({m \in at : m <= k}) = n

\* str.split(sep): the fields between the occurrences of sep, one more field
\* than there are separators
Split(s, sep) ==
  LET count == Cardinality(Positions(s, sep))
  IN  [n \in 1..(count + 1) |->
         SubSeq(s, NthPosition(s, sep, n - 1) + 1,
                IF n = count + 1 THEN Len(s) ELSE NthPosition(s, sep, n) - 1)]

\* file.readlines(): the lines with their terminator; a last line without
\* terminator is returned when it is not empty
ReadLines(content) ==
  LET count == Cardinality(Positions(content, NL))
      ended == [n \in 1..count |->
                  SubSeq(content, NthPosition(content, NL, n - 1) + 1,
                         NthPosition(content, NL, n))]
      last == NthPosition(content, NL, count)
  IN  IF last = Len(content) THEN ended
      ELSE Append(ended, SubSeq(content, last + 1, Len(content)))

\* Python's "sub in s"
Contains(s, sub) ==
  \E i \in 1..(Len(s) - Len(sub) + 1) : SubSeq(s, i, i + Len(sub) - 1) = sub

RECURSIVE Concat(_)
Concat(ss) == IF ss = <<>> THEN <<>> ELSE Head(ss) \o Concat(Tail(ss))

Range(f) == {f[x] : x \in DOMAIN f}

(***************************************************************************)
(* Crawl State Ledger: urls_crawled_in_file, urls_crawled_in_dir.          *)
(***************************************************************************)
\* the loop of urls_crawled_in_file over the stripped lines: a line that
\* does not split into 8 fields raises, the handler swallows the exception
\* and the set collected so far is returned
\* a reader that skips a malformed line and goes on with the next one
RECURSIVE ScanLinesSkipping(_, _)
ScanLinesSkipping(lines, urls_crawled) ==
  IF lines = <<>> THEN urls_crawled
  ELSE LET values == Split(Head(lines), SEP)
       IN  IF Len(values) # 8 THEN ScanLinesSkipping(Tail(lines), urls_crawled)
           ELSE ScanLinesSkipping(Tail(lines), urls_crawled \cup {values[5]})

RECURSIVE ScanLines(_, _)
ScanLines(lines, urls_crawled) ==
  IF lines = <<>> THEN urls_crawled
  ELSE LET values == Split(Head(lines), SEP)
       IN  IF Len(values) # 8 THEN urls_crawled
           ELSE ScanLines(Tail(lines), urls_crawled \cup {values[5]})

\* content is the text of the file; a name that is not a regular file
\* has no lines
urls_crawled_in_file(content) ==
  LET raw == ReadLines(content)
      lines == [k \in 1..Len(raw) |-> Strip(raw[k])]
  IN  ScanLines(lines, {})

\* dir maps the names of the regular files of the directory to their text
urls_crawled_in_dir(dir) ==
  UNION {urls_crawled_in_file(dir[f]) : f \in DOMAIN dir}

(***************************************************************************)
(* Content Extractor: crawl.                                               *)
(*                                                                         *)
(* A fetched page is a record                                              *)
(*   fetch     : FALSE when requests.get or raise_for_status raises        *)
(*   has_title : the document has a <title> element (soup.title # None)    *)
(*   title     : soup.title.string, NoneValue when the element has no      *)
(*               single string child                                       *)
(*   has_body  : the document has a <body> element (soup.body # None)      *)
(*   ps, spans : the .string of the <p> / <span> elements that have one    *)
(*   hrefs     : the href of the <a href=...> elements of the document     *)
(***************************************************************************)
\* Python's None, and its rendering by str.format
NoneValue == <<"<None>">>
Format(x) == IF x = NoneValue THEN <<"N", "o", "n", "e">> ELSE x

\* text = text + p.string.strip() + " " for each element
RECURSIVE JoinStripped(_)
JoinStripped(ps) ==
  IF ps = <<>> THEN <<>> ELSE Strip(Head(ps)) \o <<" ">> \o JoinStripped(Tail(ps))

\* text.replace("^", "")
RemoveSep(s) == SelectSeq(s, LAMBDA c : c # SEP)

NoResult == [tag |-> "none"]

\* the statements of crawl's try block that raise on this page:
\* requests.get / raise_for_status, soup.title.string when soup.title is
\* None, body.find_all when soup.body is None
crawl_raises(page) == ~page.fetch \/ ~page.has_title \/ ~page.has_body

\* a slip that builds the result before fetching: a failure returns it
crawl_partial(url, page) ==
  IF crawl_raises(page)
  THEN [tag |-> "record", url |-> url, title |-> NoneValue, body |-> <<>>]
  ELSE [tag |-> "record", url |-> url, title |-> page.title,
        body |-> RemoveSep(JoinStripped(page.ps) \o JoinStripped(page.spans))]

crawl(url, page) ==
  IF crawl_raises(page) THEN NoResult       \* except Exception: result stays None
  ELSE [tag |-> "record", url |-> url, title |-> page.title,
        body |-> RemoveSep(JoinStripped(page.ps) \o JoinStripped(page.spans))]

(***************************************************************************)
(* Result Writer: save_result, the text handed to file_handle.write.       *)
(***************************************************************************)
\* current_date_for_timestamp(): one literal atom, it holds no separator
DateOfTweet == <<"<date>">>

save_result(result) ==
  LET tweeted_text == <<"<title>">> \o Format(result.title) \o <<"</title><body>">>
                        \o Format(result.body) \o <<"</body>">>
  IN  <<"locationLong">> \o <<SEP>> \o <<"locationLat">> \o <<SEP>> \o <<"spider">>
        \o <<SEP>> \o DateOfTweet \o <<SEP>> \o result.url \o <<SEP>> \o <<"userName">>
        \o <<SEP>> \o <<"screenName">> \o <<SEP>> \o tweeted_text \o <<NL>>

(***************************************************************************)
(* Link Discovery: get_links.                                              *)
(***************************************************************************)
UPPER == <<"A", "B", "C", "X", "Y">>
LOWER == <<"a", "b", "c", "x", "y">>

\* str.lower() on the letters of the model's alphabet
LowerChar(c) ==
  IF \E k \in 1..Len(UPPER) : UPPER[k] = c
  THEN LOWER[CHOOSE k \in 1..Len(UPPER) : UPPER[k] = c] ELSE c
Lower(s) == [k \in 1..Len(s) |-> LowerChar(s[k])]

\* the characters of the class [\.\w\-]
IsHostChar(c) ==
  c \in (Range(UPPER) \cup Range(LOWER)
          \cup {"d", "e", "f", "h", "i", "l", "m", "n", "o", "p", "r", "s", "t", "w"}
          \cup {"0", "1", "_", ".", "-"})

HTTP == <<"h", "t", "t", "p", ":", "/", "/">>
HTTPS == <<"h", "t", "t", "p", "s", ":", "/", "/">>

HasPrefix(s, p) == Len(s) >= Len(p) /\ SubSeq(s, 1, Len(p)) = p
HasScheme(s) == HasPrefix(s, HTTP) \/ HasPrefix(s, HTTPS)
\* what follows "(http|https)://"
AfterScheme(s) ==
  IF HasPrefix(s, HTTP) THEN SubSeq(s, Len(HTTP) + 1, Len(s))
  ELSE SubSeq(s, Len(HTTPS) + 1, Len(s))

NoNewline(s) == \A k \in 1..Len(s) : s[k] # NL
\* '$' also matches before a newline that ends the string
DropFinalNewline(s) ==
  IF s # <<>> /\ s[Len(s)] = NL THEN SubSeq(s, 1, Len(s) - 1) ELSE s

\* positions of the '\.' of "^(http|https)://(.*)\..{2,20}.*$" in rest
PublisherDots(rest) == {d \in 1..Len(rest) : rest[d] = "." /\ Len(rest) - d >= 2}

\* re.search("^(http|https)://(.*)\..{2,20}.*$", url) finds a match
PublisherMatches(url) ==
  /\ HasScheme(url)
  /\ NoNewline(DropFinalNewline(AfterScheme(url)))
  /\ PublisherDots(DropFinalNewline(AfterScheme(url))) # {}

\* group(2) of that match: '(.*)' is greedy, it ends at the last such dot
url_publisher(url) ==
  LET rest == DropFinalNewline(AfterScheme(url))
      d == CHOOSE x \in PublisherDots(rest) : \A y \in PublisherDots(rest) : y <= x
  IN  SubSeq(rest, 1, d - 1)

\* pattern_story.match(link), the pattern being
\* "^(http|https)://.*{last_publisher}[\.\w\-]*/.+/?$"
pattern_story_match(last_publisher, link) ==
  /\ HasScheme(link)
  /\ LET rest == DropFinalNewline(AfterScheme(link))
         n == Len(last_publisher)
     IN  /\ NoNewline(rest)
         /\ \E i \in 1..(Len(rest) + 1) :
              /\ i + n - 1 <= Len(rest)
              /\ SubSeq(rest, i, i + n - 1) = last_publisher
              /\ \E j \in (i + n)..(Len(rest) - 1) :
                   /\ rest[j] = "/"
                   /\ \A k \in (i + n)..(j - 1) : IsHostChar(rest[k])

\* a slip that leaves the filter test out
keep_link_unfiltered(link, publishers, filter_list) ==
  /\ pattern_story_match(publishers[Len(publishers)], link)
  /\ \E k \in 1..Len(publishers) : Contains(link, publishers[k])

\* a slip that leaves the pattern test out
keep_link_publisher_only(link, publishers, filter_list) ==
  /\ \E k \in 1..Len(publishers) : Contains(link, publishers[k])
  /\ (Len(filter_list) > 0 => \E k \in 1..Len(filter_list) : Contains(link, filter_list[k]))

\* the body of the loop over the anchors: is this (lower-cased) link kept
keep_link(link, publishers, filter_list) ==
  /\ pattern_story_match(publishers[Len(publishers)], link)
  /\ \E k \in 1..Len(publishers) : Contains(link, publishers[k])
  /\ (Len(filter_list) > 0 => \E k \in 1..Len(filter_list) : Contains(link, filter_list[k]))

\* the statements of get_links' try block that raise: None.group when the
\* seed does not match, requests.get / raise_for_status, body.find_all when
\* soup.body is None
get_links_raises(url, page) ==
  \/ ~PublisherMatches(url)
  \/ Strip(url_publisher(url)) # <<>> /\ (~page.fetch \/ ~page.has_body)

\* a slip that scans the anchors of the whole document, not of soup.body
get_links_whole_document(url, filter_list, page) ==
  IF ~PublisherMatches(url) \/ ~page.fetch THEN <<>>
  ELSE IF Strip(url_publisher(url)) = <<>> THEN <<>>
  ELSE LET split == Split(url_publisher(url), ".")
           publishers == [k \in 1..Len(split) |-> Lower(split[k])]
           lowered == [k \in 1..Len(page.hrefs) |-> Lower(page.hrefs[k])]
       IN  SelectSeq(lowered, LAMBDA link : keep_link(link, publishers, filter_list))

get_links(url, filter_list, page) ==
  IF get_links_raises(url, page) THEN <<>>  \* except Exception: links is still []
  ELSE IF Strip(url_publisher(url)) = <<>> THEN <<>>
  ELSE LET split == Split(url_publisher(url), ".")
           publishers == [k \in 1..Len(split) |-> Lower(split[k])]
           lowered == [k \in 1..Len(page.hrefs) |-> Lower(page.hrefs[k])]
       IN  SelectSeq(lowered, LAMBDA link : keep_link(link, publishers, filter_list))

(***************************************************************************)
(* The environment: the seed store, the web, the ledger directory.         *)
(***************************************************************************)
\* the two crawler instances started on the same ledger directory
Inst == {1, 2}

\* the output file named on the command line, and another file of the directory
LEDGER == "ledger"
OTHERFILE == "other"

\* seed URLs returned by get_urls_from_mongodb
SeedA == HTTP \o <<"a", ".", "b", "c">>
SeedB == HTTP \o <<"b", ".", "b", "c">>
\* a seed the publisher pattern does not match
SeedNoDot == HTTP \o <<"a", "b">>
\* hrefs found on the seed pages
LinkX == HTTP \o <<"a", ".", "b", "c", "/", "x">>
\* a story page can be a seed too
SeedList == <<SeedNoDot, SeedA, LinkX, SeedB>>
Seeds == {SeedList[k] : k \in 1..MaxSeeds}

LinkXUpper == HTTP \o <<"a", ".", "b", "c", "/", "X">>
LinkY == HTTP \o <<"a", ".", "b", "c", "/", "y">>
LinkForeign == HTTP \o <<"c", ".", "x", "y", "/", "x">>

Page(fetch, has_title, title, has_body, ps, spans, hrefs) ==
  [fetch |-> fetch, has_title |-> has_title, title |-> title, has_body |-> has_body,
   ps |-> ps, spans |-> spans, hrefs |-> hrefs]

FetchError == Page(FALSE, FALSE, <<>>, FALSE, <<>>, <<>>, <<>>)

\* what a fetch of a seed page can return
SeedPages ==
  { FetchError,
    Page(TRUE, TRUE, <<"t">>, FALSE, <<>>, <<>>, <<LinkX>>),
    Page(TRUE, TRUE, <<"t">>, TRUE, <<>>, <<>>, <<LinkY, LinkX, LinkXUpper, LinkForeign>>) }

\* what a fetch of a story page can return
StoryPages ==
  { FetchError,
    Page(TRUE, FALSE, <<>>, TRUE, << <<"x">> >>, <<>>, <<>>),
    Page(TRUE, TRUE, <<"t">>, TRUE, << <<" ", "x">> >>, << <<"y", SEP>> >>, <<>>),
    Page(TRUE, TRUE, <<"t", SEP, "t">>, TRUE, <<>>, <<>>, <<>>) }

\* the --filter option after split(",") and strip()
FilterLists == { <<>>, << <<"x">> >>, << <<"y">>, <<"/", "a">> >>, << <<>> >> }
\* the option of the crawler instances
NoFilter == <<>>

\* a ledger line as a run of save_result leaves it
WellFormedLine(url) ==
  save_result([tag |-> "record", url |-> url, title |-> <<"t">>, body |-> <<"x", " ">>])

\* the other file of the directory when the instances start
OtherContent == WellFormedLine(LinkY)

(***************************************************************************)
(* State.                                                                  *)
(***************************************************************************)
VARIABLES
  files,          \* the regular files of the directory: name -> text
  locks,          \* instances whose handle holds the flock on LEDGER
  filter_list,    \* the parsed --filter option
  dir_exists,     \* os.path.isdir(directory)
  seed_store,     \* the urls of the documents of the mongodb collection
  seed_pages,     \* what a fetch of a seed page can return
  pc,             \* position of each instance in main
  urls_crawled,   \* main's urls_crawled of each instance
  urls_to_crawl,  \* seeds the for loop of each instance has not visited yet
  links,          \* links of the current seed the inner loop has not visited yet
  buf,            \* lines written to the handle and not yet flushed to the file
  cur_seed,       \* history: the seed being processed, whether get_links raised,
                  \* and the hrefs its loop over the anchors went through
  loaded,         \* history: urls_crawled as loaded at startup
  preds,          \* history: instances that had ended when this one started
  acquired,       \* history: wait_and_lock_file returned in this run
  crawl_log,      \* history: the calls of crawl, in order
  persisted,      \* history: urls of the lines of this instance that reached the file
  phys            \* history: writer and lock holders of the last physical write

\* what a run is given and never changes
env == <<filter_list, dir_exists, seed_store, seed_pages>>

vars == <<files, locks, env, pc, urls_crawled, urls_to_crawl, links, buf,
          cur_seed, loaded, preds, acquired, crawl_log, persisted, phys>>

NoSeed == [url |-> <<>>, raised |-> FALSE, anchors |-> <<>>]
NoWrite == [by |-> 0, locks |-> {}]

Ended == {"done", "failed"}

InitRun ==
  /\ locks = {}
  /\ pc = [i \in Inst |-> "init"]
  /\ urls_crawled = [i \in Inst |-> {}]
  /\ urls_to_crawl = [i \in Inst |-> {}]
  /\ links = [i \in Inst |-> <<>>]
  /\ buf = [i \in Inst |-> <<>>]
  /\ cur_seed = [i \in Inst |-> NoSeed]
  /\ loaded = [i \in Inst |-> {}]
  /\ preds = [i \in Inst |-> {}]
  /\ acquired = [i \in Inst |-> FALSE]
  /\ crawl_log = [i \in Inst |-> <<>>]
  /\ persisted = [i \in Inst |-> {}]
  /\ phys = NoWrite

\* the crawled seeds and pages of the crawler instances
InitWeb ==
  /\ seed_store = Seeds
  /\ seed_pages = SeedPages

\* no directory, no files
NoFiles == [f \in {} |-> <<>>]

Init ==
  /\ dir_exists \in BOOLEAN
  /\ files = IF dir_exists THEN (OTHERFILE :> OtherContent) ELSE NoFiles
  /\ filter_list = NoFilter
  /\ InitWeb
  /\ InitRun

(***************************************************************************)
(* The file handle: buffered writes, flush, flock.                         *)
(***************************************************************************)
\* the text of the pending lines
Pending(b) == Concat([k \in 1..Len(b) |-> b[k].text])
PendingUrls(b) == {b[k].url : k \in 1..Len(b)}

\* a slip that opens the file with mode "w": the write replaces the content
WriteOver(fs, text) == [fs EXCEPT ![LEDGER] = text]
\* O_APPEND write of text to the ledger file
AppendTo(fs, text) == [fs EXCEPT ![LEDGER] = @ \o text]

\* flock(LOCK_EX | LOCK_NB) by i succeeds iff no other handle holds the lock
flock_shared(holders, i) == TRUE
flock_grants(holders, i) == holders \ {i} = {}

\* closing the handle drops the flock it holds
close_keeps(holders, i) == holders
close_releases(holders, i) == holders \ {i}

\* main, line 299: urls_crawled.add(link)
mark_on_success(crawled, link, result) ==
  IF result.tag = "record" THEN crawled \cup {link} ELSE crawled
\* a slip that assigns the set where it should add to it
mark_replaces(crawled, link, result) == {link}
mark_crawled(crawled, link, result) == crawled \cup {link}

(***************************************************************************)
(* main, one action per step of an instance i.                             *)
(***************************************************************************)
\* line 291: the for loop takes each url of urls_to_crawl once
seeds_left_all(seeds, url) == seeds
seeds_left(seeds, url) == seeds \ {url}

\* line 279: os.path.isdir(directory)
directory_unchecked(exists) == TRUE
directory_ok(exists) == exists

\* lines 279-280: the directory does not exist, main raises
DirectoryMissing(i) ==
  /\ pc[i] = "init"
  /\ ~directory_ok(dir_exists)
  /\ pc' = [pc EXCEPT ![i] = "failed"]
  /\ UNCHANGED <<files, locks, env, urls_crawled, urls_to_crawl, links, buf,
                 cur_seed, loaded, preds, acquired, crawl_log, persisted, phys>>

\* lines 285-287: load the crawled set from the directory, query the seeds
Startup(i) ==
  /\ pc[i] = "init"
  /\ directory_ok(dir_exists)
  /\ urls_crawled' = [urls_crawled EXCEPT ![i] = urls_crawled_in_dir(files)]
  /\ loaded' = [loaded EXCEPT ![i] = urls_crawled_in_dir(files)]
  /\ urls_to_crawl' = [urls_to_crawl EXCEPT ![i] = seed_store]
  /\ preds' = [preds EXCEPT ![i] = {j \in Inst : pc[j] \in Ended}]
  /\ pc' = [pc EXCEPT ![i] = "open"]
  /\ UNCHANGED <<files, locks, env, links, buf, cur_seed, acquired,
                 crawl_log, persisted, phys>>

\* line 289: open(file_path, "a") creates the file when it is missing
OpenFile(i) ==
  /\ pc[i] = "open"
  /\ files' = IF LEDGER \in DOMAIN files THEN files ELSE files @@ (LEDGER :> <<>>)
  /\ pc' = [pc EXCEPT ![i] = "lock"]
  /\ UNCHANGED <<locks, env, urls_crawled, urls_to_crawl, links, buf,
                 cur_seed, loaded, preds, acquired, crawl_log, persisted, phys>>

\* wait_and_lock_file, lines 44-50: an IOError whose errno is EAGAIN is not
\* raised again, the loop sleeps and tries again
wait_raises(eagain) == FALSE
wait_retries(eagain) == eagain

\* wait_and_lock_file, one turn of its loop: the flock attempt either
\* succeeds, or fails with EAGAIN (message, sleep, retry)
TryLock(i) ==
  /\ pc[i] = "lock"
  /\ IF flock_grants(locks, i)
     THEN /\ locks' = locks \cup {i}
          /\ acquired' = [acquired EXCEPT ![i] = TRUE]
          /\ pc' = [pc EXCEPT ![i] = "seed_loop"]
     ELSE /\ pc' = [pc EXCEPT ![i] = IF wait_retries(TRUE) THEN "sleep" ELSE "exit"]
          /\ UNCHANGED <<locks, acquired>>
  /\ UNCHANGED <<files, env, urls_crawled, urls_to_crawl, links, buf,
                 cur_seed, loaded, preds, crawl_log, persisted, phys>>

\* wait_and_lock_file: time.sleep(1) is over
Sleep(i) ==
  /\ pc[i] = "sleep"
  /\ pc' = [pc EXCEPT ![i] = "lock"]
  /\ UNCHANGED <<files, locks, env, urls_crawled, urls_to_crawl, links, buf,
                 cur_seed, loaded, preds, acquired, crawl_log, persisted, phys>>

\* wait_and_lock_file: flock fails with an errno other than EAGAIN, the
\* IOError is raised again and leaves the with block
LockError(i) ==
  /\ pc[i] = "lock"
  /\ pc' = [pc EXCEPT ![i] = "exit"]
  /\ UNCHANGED <<files, locks, env, urls_crawled, urls_to_crawl, links, buf,
                 cur_seed, loaded, preds, acquired, crawl_log, persisted, phys>>

\* lines 291-293: the next seed of the for loop (a set: any order); a seed
\* that is not in urls_crawled is fetched and its links extracted
NextSeed(i) ==
  /\ pc[i] = "seed_loop"
  /\ \E url \in urls_to_crawl[i] :
       /\ urls_to_crawl' = [urls_to_crawl EXCEPT ![i] = seeds_left(@, url)]
       /\ IF url \notin urls_crawled[i]
          THEN \E page \in seed_pages :
                 /\ links' = [links EXCEPT ![i] = get_links(url, filter_list, page)]
                 /\ cur_seed' = [cur_seed EXCEPT
                                   ![i] = [url |-> url,
                                           raised |-> get_links_raises(url, page),
                                           anchors |-> IF get_links_raises(url, page)
                                                       THEN <<>> ELSE page.hrefs]]
                 /\ pc' = [pc EXCEPT ![i] = "link_loop"]
          ELSE UNCHANGED <<links, cur_seed, pc>>
  /\ UNCHANGED <<files, locks, env, urls_crawled, buf, loaded, preds,
                 acquired, crawl_log, persisted, phys>>

\* line 294: the links of the seed are exhausted
LinksDone(i) ==
  /\ pc[i] = "link_loop"
  /\ links[i] = <<>>
  /\ pc' = [pc EXCEPT ![i] = "seed_loop"]
  /\ UNCHANGED <<files, locks, env, urls_crawled, urls_to_crawl, links, buf,
                 cur_seed, loaded, preds, acquired, crawl_log, persisted, phys>>

\* the pending lines b of i reach the file in one physical write
FlushTo(i, b) ==
  /\ files' = AppendTo(files, Pending(b))
  /\ persisted' = [persisted EXCEPT ![i] = @ \cup PendingUrls(b)]
  /\ phys' = [by |-> i, locks |-> locks]

LogCrawl(i, link, page, result) ==
  crawl_log' = [crawl_log EXCEPT
                  ![i] = Append(@, [link |-> link, raised |-> crawl_raises(page),
                                    fetched |-> page.fetch,
                                    saved |-> result.tag = "record"])]

\* lines 294-299, one turn of the inner loop: crawl the link unless it is
\* in urls_crawled, save the result, mark the link.  file_handle.write
\* keeps the line in the handle's buffer, or flushes the buffer before or
\* after taking the line, or raises (the exception leaves the loops)
ProcessLink(i) ==
  /\ pc[i] = "link_loop"
  /\ links[i] # <<>>
  /\ LET link == Head(links[i]) IN
     IF link \in urls_crawled[i]
     THEN /\ links' = [links EXCEPT ![i] = Tail(@)]
          /\ UNCHANGED <<files, urls_crawled, buf, crawl_log, persisted, phys, pc>>
     ELSE \E page \in StoryPages :
            LET result == crawl(link, page)
                entry == [url |-> link, text |-> save_result(result)]
            IN  /\ LogCrawl(i, link, page, result)
                /\ \/ /\ result.tag = "none"
                      /\ UNCHANGED <<files, buf, persisted, phys>>
                      /\ urls_crawled' = [urls_crawled EXCEPT
                                            ![i] = mark_crawled(@, link, result)]
                      /\ links' = [links EXCEPT ![i] = Tail(@)]
                      /\ UNCHANGED pc
                   \/ /\ result.tag = "record"
                      /\ \/ /\ buf' = [buf EXCEPT ![i] = Append(@, entry)]
                            /\ UNCHANGED <<files, persisted, phys>>
                         \/ /\ buf[i] # <<>>
                            /\ FlushTo(i, buf[i])
                            /\ buf' = [buf EXCEPT ![i] = <<entry>>]
                         \/ /\ FlushTo(i, Append(buf[i], entry))
                            /\ buf' = [buf EXCEPT ![i] = <<>>]
                      /\ urls_crawled' = [urls_crawled EXCEPT
                                            ![i] = mark_crawled(@, link, result)]
                      /\ links' = [links EXCEPT ![i] = Tail(@)]
                      /\ UNCHANGED pc
                   \/ /\ result.tag = "record"
                      /\ \E b \in {<<>>, Append(buf[i], entry)} :
                           buf' = [buf EXCEPT ![i] = b]
                      /\ pc' = [pc EXCEPT ![i] = "exit_locked"]
                      /\ UNCHANGED <<files, persisted, phys, urls_crawled, links>>
  /\ UNCHANGED <<locks, env, urls_to_crawl, cur_seed, loaded, preds, acquired>>

\* line 300: the for loop is over, unlock_file
Unlock(i) ==
  /\ pc[i] = "seed_loop"
  /\ urls_to_crawl[i] = {}
  /\ locks' = locks \ {i}
  /\ pc' = [pc EXCEPT ![i] = "close"]
  /\ UNCHANGED <<files, env, urls_crawled, urls_to_crawl, links, buf,
                 cur_seed, loaded, preds, acquired, crawl_log, persisted, phys>>

\* the end of the with block, after unlock_file or on an exception: close
\* flushes the buffer (the write can fail, the lines are lost) and closes
\* the descriptor, which drops its flock
Close(i) ==
  /\ pc[i] \in {"close", "exit", "exit_locked"}
  /\ \/ /\ buf[i] # <<>>
        /\ FlushTo(i, buf[i])
        /\ pc' = [pc EXCEPT ![i] = IF pc[i] = "close" THEN "done" ELSE "failed"]
     \/ /\ buf[i] = <<>>
        /\ UNCHANGED <<files, persisted, phys>>
        /\ pc' = [pc EXCEPT ![i] = IF pc[i] = "close" THEN "done" ELSE "failed"]
     \/ /\ buf[i] # <<>>
        /\ UNCHANGED <<files, persisted, phys>>
        /\ pc' = [pc EXCEPT ![i] = "failed"]
  /\ buf' = [buf EXCEPT ![i] = <<>>]
  /\ locks' = close_releases(locks, i)
  /\ UNCHANGED <<env, urls_crawled, urls_to_crawl, links, cur_seed, loaded,
                 preds, acquired, crawl_log>>

Next ==
  \E i \in Inst :
    \/ DirectoryMissing(i)
    \/ Startup(i)
    \/ OpenFile(i)
    \/ TryLock(i)
    \/ Sleep(i)
    \/ LockError(i)
    \/ NextSeed(i)
    \/ LinksDone(i)
    \/ ProcessLink(i)
    \/ Unlock(i)
    \/ Close(i)

Spec == Init /\ [][Next]_vars

\* the steps of instance i from its first flock attempt to the end of the
\* with block, when flock fails with no errno other than EAGAIN
Run(i) ==
  \/ TryLock(i)
  \/ Sleep(i)
  \/ NextSeed(i)
  \/ LinksDone(i)
  \/ ProcessLink(i)
  \/ Unlock(i)
  \/ Close(i)

NextFair ==
  \E i \in Inst :
    \/ DirectoryMissing(i)
    \/ Startup(i)
    \/ OpenFile(i)
    \/ Run(i)

\* the seeds of the runs followed to their end
FairSeeds == {SeedA, LinkX}

InitFair ==
  /\ dir_exists \in BOOLEAN
  /\ files = IF dir_exists THEN (OTHERFILE :> OtherContent) ELSE NoFiles
  /\ filter_list = NoFilter
  /\ seed_store = FairSeeds
  /\ seed_pages = SeedPages
  /\ InitRun

\* every instance is a process of its own that the system keeps scheduling:
\* a sleep ends, a fetch returns or times out, a write returns
SpecFair == InitFair /\ [][NextFair]_vars /\ \A i \in Inst : WF_vars(Run(i))

(***************************************************************************)
(* The ledger reader on arbitrary directories.                             *)
(***************************************************************************)
\* lines a file of the directory can hold: two lines of 8 fields (the
\* second one with white space around it) and a line of 9 fields, as
\* save_result writes for a title that holds the separator
KeyU == <<"u">>
KeyV == <<"v">>
SampleLines ==
  { <<"l", SEP, "l", SEP, "s", SEP, "d", SEP>> \o KeyU \o <<SEP, "n", SEP, "n", SEP, "t", NL>>,
    <<" ", SEP, SEP, SEP, SEP>> \o KeyV \o <<SEP, SEP, SEP, "t", " ", NL>>,
    <<"l", SEP, "l", SEP, "s", SEP, "d", SEP>> \o KeyU
      \o <<SEP, "n", SEP, "n", SEP, "t", SEP, "t", NL>> }

FileContents ==
  UNION { {Concat(ls) : ls \in [1..n -> SampleLines]} : n \in 0..MaxFileLines }

InitLedger ==
  /\ dir_exists = TRUE
  /\ files \in [{LEDGER, OTHERFILE} -> FileContents]
  /\ filter_list = NoFilter
  /\ InitWeb
  /\ InitRun

NextLedger == \E i \in Inst : Startup(i)

SpecLedger == InitLedger /\ [][NextLedger]_vars

(***************************************************************************)
(* Properties.                                                             *)
(***************************************************************************)
\* positions of main between the return of wait_and_lock_file and the
\* release of the lock
Critical == {"seed_loop", "link_loop", "exit_locked"}

LastOf(s) == s[Len(s)]

\* C1: no physical write of an instance reaches the ledger file while the
\* other instance holds the exclusive lock (the appends of the two
\* instances are serialized by the lock, buffered output included)
C1_WritesSerializedByLock == phys.locks \subseteq {phys.by}

\* C2: at most one instance is between the return of wait_and_lock_file
\* and its release of the lock, and an instance that is there holds the lock
C2_MutualExclusion ==
  /\ Cardinality({i \in Inst : pc[i] \in Critical}) <= 1
  /\ \A i \in Inst : pc[i] \in Critical => i \in locks

\* an instance is in its loops while the other one waits for the lock
C2_Contended ==
  \E i, j \in Inst : i # j /\ pc[i] = "link_loop" /\ pc[j] = "sleep" /\ locks = {i}

\* C3: a run that has ended, normally or by an exception that escaped the
\* seed loop, no longer holds the lock
C3_LockReleasedAtEnd == \A i \in Inst : pc[i] \in Ended => i \notin locks

\* a run that acquired the lock has ended by an exception
C3_EndedByException == \E i \in Inst : pc[i] = "failed" /\ acquired[i] /\ locks = {}

\* C4: when a run starts after another run has completed, it crawls no link
\* whose ledger line the earlier run persisted
C4_SecondRunSkipsPersisted ==
  \A i, j \in Inst :
    (i \in preds[j] /\ pc[i] = "done") =>
      \A k \in 1..Len(crawl_log[j]) : crawl_log[j][k].link \notin persisted[i]

\* the fields of the lines of a file, the identity keys of its well-formed
\* lines, and those of the well-formed lines no malformed line precedes
LineFields(content) ==
  LET raw == ReadLines(content) IN [k \in 1..Len(raw) |-> Split(Strip(raw[k]), SEP)]
WellFormedKeys(content) ==
  LET v == LineFields(content) IN {v[k][5] : k \in {m \in 1..Len(v) : Len(v[m]) = 8}}
KeysBeforeFirstMalformed(content) ==
  LET v == LineFields(content)
  IN  {v[k][5] : k \in {m \in 1..Len(v) : \A n \in 1..m : Len(v[n]) = 8}}

\* C5 as stated: the set loaded at startup is exactly the set of the 5th
\* fields of all the well-formed lines of all the files of the directory,
\* wherever they stand
C5_LoadsAllWellFormedLines ==
  \A i \in Inst :
    pc[i] = "open" => loaded[i] = UNION {WellFormedKeys(files[f]) : f \in DOMAIN files}

\* C5 amended: the set loaded at startup is exactly the set of the 5th
\* fields of the well-formed lines that no malformed line precedes in
\* their file
C5_LoadsLinesBeforeFirstMalformed ==
  \A i \in Inst :
    pc[i] = "open" =>
      loaded[i] = UNION {KeysBeforeFirstMalformed(files[f]) : f \in DOMAIN files}

\* a directory was loaded in which a well-formed line follows a malformed
\* one and another file contributes its keys
C5_LineAfterMalformedDropped ==
  \E i \in Inst :
    /\ pc[i] = "open"
    /\ loaded[i] # {}
    /\ \E f \in DOMAIN files : ~(WellFormedKeys(files[f]) \subseteq loaded[i])

\* C6: in one run crawl is called at most once per link and never for a
\* link loaded at startup, and a link whose attempt is over (crawl returned
\* a record or nothing) is in urls_crawled
C6_AtMostOneCrawlPerLink ==
  \A i \in Inst :
    /\ \A k1, k2 \in 1..Len(crawl_log[i]) :
         k1 # k2 => crawl_log[i][k1].link # crawl_log[i][k2].link
    /\ \A k \in 1..Len(crawl_log[i]) :
         /\ crawl_log[i][k].link \notin loaded[i]
         /\ (k < Len(crawl_log[i]) \/ pc[i] \in {"seed_loop", "link_loop", "close", "done"})
            => crawl_log[i][k].link \in urls_crawled[i]

\* the inner loop is about to skip a link it has crawled (without success)
\* earlier in this run
C6_RepeatedLinkSkipped ==
  \E i \in Inst :
    /\ pc[i] = "link_loop" /\ links[i] # <<>>
    /\ Head(links[i]) \in urls_crawled[i] \ loaded[i]
    /\ \E k \in 1..Len(crawl_log[i]) :
         crawl_log[i][k].link = Head(links[i]) /\ ~crawl_log[i][k].saved
    /\ loaded[i] # {}

\* the step of instance i is a call of crawl
CrawlStep(i) == Len(crawl_log'[i]) = Len(crawl_log[i]) + 1

\* C7: a call of crawl whose fetch or parsing fails writes nothing, marks
\* the link as crawled and leaves the instance in its inner loop with the
\* remaining links and seeds
C7_CrawlFailureIsolated ==
  [][\A i \in Inst :
       (CrawlStep(i) /\ LastOf(crawl_log'[i]).raised) =>
         /\ files' = files /\ buf' = buf
         /\ Head(links[i]) \in urls_crawled'[i]
         /\ pc'[i] = "link_loop"
         /\ links'[i] = Tail(links[i])
         /\ urls_to_crawl' = urls_to_crawl]_vars

\* a crawl has failed and the instance goes on with a link left to visit
C7_FailedCrawlLogged ==
  \E i \in Inst :
    /\ crawl_log[i] # <<>> /\ LastOf(crawl_log[i]).raised /\ ~LastOf(crawl_log[i]).saved
    /\ pc[i] = "link_loop" /\ links[i] # <<>>

\* C8: when get_links raises inside for a seed, it returns no link: the
\* step crawls nothing, writes nothing, and leaves the instance in its
\* loops with the remaining seeds
C8_GetLinksFailureIsolated ==
  [][\A i \in Inst :
       (pc[i] = "seed_loop" /\ cur_seed'[i] # cur_seed[i] /\ cur_seed'[i].raised) =>
         /\ links'[i] = <<>>
         /\ pc'[i] = "link_loop"
         /\ files' = files /\ buf' = buf /\ crawl_log' = crawl_log
         /\ urls_crawled' = urls_crawled
         /\ urls_to_crawl'[i] = urls_to_crawl[i] \ {cur_seed'[i].url}]_vars

\* get_links has raised for a seed (whose page was fetched or not) and the
\* instance still has a seed to visit
C8_SeedFailed ==
  \E i \in Inst :
    /\ pc[i] = "link_loop" /\ cur_seed[i].raised /\ links[i] = <<>>
    /\ urls_to_crawl[i] # {}

\* C9: a crawl whose fetch succeeded returned a record, which was handed to
\* save_result
C9_FetchedPageYieldsRecord ==
  \A i \in Inst : \A k \in 1..Len(crawl_log[i]) :
    crawl_log[i][k].fetched => crawl_log[i][k].saved

\* C10: the text save_result writes for a record is one line, ended by a
\* newline, of 8 fields of which the 5th is the record's url, and
\* urls_crawled_in_file reads the url back from it
C10_LineRoundTrip ==
  \A i \in Inst : \A k \in 1..Len(buf[i]) :
    LET text == buf[i][k].text
        url == buf[i][k].url
    IN  /\ Len(ReadLines(text)) = 1
        /\ LastOf(text) = NL
        /\ Len(Split(Strip(text), SEP)) = 8
        /\ Split(Strip(text), SEP)[5] = url
        /\ url \in urls_crawled_in_file(text)

\* C11: the lock keeps an instance from reading the ledger while another
\* instance writes it: no instance builds its crawled set (lines 285, before the
\* lock of line 290) while another instance holds the lock, and two instances
\* running at the same time never both persist the same url.
C11_NoReadWhileLocked ==
  /\ [](\A i, j \in Inst :
          (i /= j /\ i \notin preds[j] /\ j \notin preds[i])
            => persisted[i] \cap persisted[j] = {})
  /\ [][\A i \in Inst :
          (pc[i] = "init" /\ pc'[i] = "open") => locks \ {i} = {}]_vars

\* C13: without the output directory the run fails at once: the ledger is not
\* read, the seed store is not queried, no file is opened or created, no lock
\* is tried, no page is fetched, and no file is created or changed.
C13_MissingDirectoryFailsFirst ==
  ~dir_exists =>
    /\ files = NoFiles
    /\ locks = {}
    /\ phys = NoWrite
    /\ \A i \in Inst :
         /\ pc[i] \in {"init", "failed"}
         /\ loaded[i] = {}
         /\ urls_crawled[i] = {}
         /\ urls_to_crawl[i] = {}
         /\ ~acquired[i]
         /\ cur_seed[i] = NoSeed
         /\ crawl_log[i] = <<>>
         /\ persisted[i] = {}

\* the directory is missing and a run has failed on it
C13_FailedOnMissingDirectory ==
  ~dir_exists /\ \E i \in Inst : pc[i] = "failed"

\* C12: a link whose crawl fails in a run is never the key of a line that run
\* writes or buffers; it stays in the run's crawled set, so the run skips it
\* from then on; a run started after that run ended does not load it from the
\* ledger and has it in its crawled set only by crawling it again itself.
C12_FailedLinkRetriedNextRun ==
  \A i \in Inst : \A k \in DOMAIN crawl_log[i] :
    crawl_log[i][k].raised =>
      LET link == crawl_log[i][k].link
      IN  /\ link \notin persisted[i]
          /\ link \notin PendingUrls(buf[i])
          /\ link \in urls_crawled[i]
          /\ \A j \in Inst :
               i \in preds[j] =>
                 /\ link \notin loaded[j]
                 /\ link \in urls_crawled[j] =>
                      \E l \in DOMAIN crawl_log[j] : crawl_log[j][l].link = link

\* a later run has crawled a link whose crawl failed in an earlier run
C12_LaterRunCrawledFailedLink ==
  \E i, j \in Inst :
    /\ i \in preds[j]
    /\ \E k \in DOMAIN crawl_log[i] : \E l \in DOMAIN crawl_log[j] :
         /\ crawl_log[i][k].raised
         /\ crawl_log[j][l].link = crawl_log[i][k].link

(***************************************************************************)
(* get_links as a function of the seed, the filter and the page: one seed  *)
(* per run, pages with every list of at most MaxAnchors hrefs, and the     *)
(* run followed up to the return of get_links.                             *)
(***************************************************************************)
\* http://news.example/index and the two links of its page
SeedNews == HTTP \o <<"n", "e", "w", "s", ".", "e", "x", "a", "m", "p", "l", "e",
                      "/", "i", "n", "d", "e", "x">>
LinkNews == HTTP \o <<"n", "e", "w", "s", ".", "e", "x", "a", "m", "p", "l", "e",
                      "/", "a", "/", "1">>
LinkOther == HTTP \o <<"o", "t", "h", "e", "r", ".", "c", "o", "m", "/", "x">>
\* a seed with dots in its path: http://a.bc/x.y.ab
SeedDots == HTTP \o <<"a", ".", "b", "c", "/", "x", ".", "y", ".", "a", "b">>
\* a relative href
LinkRelative == <<"/", "a", "/", "x">>

LinkSeeds == {SeedA, SeedNoDot, SeedNews, SeedDots}
Anchors == {LinkXUpper, LinkY, LinkForeign, LinkNews, LinkOther, LinkRelative}
AnchorLists == UNION {[1..n -> Anchors] : n \in 0..MaxAnchors}
LinkPages ==
  {FetchError} \cup
  {Page(TRUE, TRUE, <<"t">>, TRUE, <<>>, <<>>, hrefs) : hrefs \in AnchorLists}

InitLinks ==
  /\ dir_exists = TRUE
  /\ files = (OTHERFILE :> OtherContent)
  /\ filter_list \in FilterLists
  /\ seed_store \in {{url} : url \in LinkSeeds}
  /\ seed_pages = LinkPages
  /\ InitRun

NextLinks ==
  \E i \in Inst :
    \/ Startup(i)
    \/ OpenFile(i)
    \/ TryLock(i)
    \/ Sleep(i)
    \/ NextSeed(i)

SpecLinks == InitLinks /\ [][NextLinks]_vars

\* str.lower() on each href of a list
LowerAll(hrefs) == [k \in DOMAIN hrefs |-> Lower(hrefs[k])]

\* the step in which instance i calls get_links
GetLinksStep(i) == pc[i] = "seed_loop" /\ pc'[i] = "link_loop"

\* the lower-cased dot-separated pieces of the seed's url_publisher
SeedSegments(url) ==
  LET split == Split(url_publisher(url), ".")
  IN  [k \in 1..Len(split) |-> Lower(split[k])]
\* the link matches the pattern built from the last piece and holds a piece
SameSite(url, link) ==
  /\ pattern_story_match(SeedSegments(url)[Len(SeedSegments(url))], link)
  /\ \E k \in DOMAIN SeedSegments(url) : Contains(link, SeedSegments(url)[k])
\* the link holds one of the filter strings, or there is no filter
PassesFilter(link) ==
  filter_list = <<>> \/ \E k \in DOMAIN filter_list : Contains(link, filter_list[k])

\* C14: with a non-empty filter list every link get_links returns holds at
\* least one filter string; with an empty filter list get_links returns every
\* lower-cased href that passes the pattern and publisher tests.
C14_FilterStep ==
  [][\A i \in Inst :
       GetLinksStep(i) =>
         /\ filter_list /= <<>> =>
              \A k \in DOMAIN links'[i] :
                \E f \in DOMAIN filter_list : Contains(links'[i][k], filter_list[f])
         /\ (filter_list = <<>> /\ ~cur_seed'[i].raised) =>
              links'[i] = SelectSeq(LowerAll(cur_seed'[i].anchors),
                                    LAMBDA link : SameSite(cur_seed'[i].url, link))]_vars

\* a filter is set, get_links returned a link and the filter rejected another
C14_FilterRejectedALink ==
  /\ filter_list /= <<>>
  /\ \E i \in Inst :
       /\ pc[i] = "link_loop"
       /\ links[i] /= <<>>
       /\ \E k \in DOMAIN cur_seed[i].anchors :
            /\ SameSite(cur_seed[i].url, Lower(cur_seed[i].anchors[k]))
            /\ ~PassesFilter(Lower(cur_seed[i].anchors[k]))

\* the dot-separated labels of the host of a url, lower-cased
HostLabels(url) ==
  LET rest == AfterScheme(url)
      slashes == {k \in 1..Len(rest) : rest[k] = "/"}
      host == IF slashes = {} THEN rest
              ELSE SubSeq(rest, 1, (CHOOSE k \in slashes : \A l \in slashes : k <= l) - 1)
  IN  LowerAll(Split(host, "."))

\* the run of the example: seed http://news.example/index, no filter, a page
\* whose links are http://news.example/a/1 and http://other.com/x
NewsExample(seed, anchors) ==
  /\ filter_list = <<>>
  /\ seed = SeedNews
  /\ anchors = <<LinkNews, LinkOther>>

\* C15 as stated: get_links returns the lower-cased hrefs that match the
\* pattern built from the seed's publisher token, hold a label of the seed's
\* host and pass the filter, in page order; the example returns only
\* http://news.example/a/1.
C15_KeptIffPatternAndHostLabel ==
  [][\A i \in Inst :
       (GetLinksStep(i) /\ ~cur_seed'[i].raised) =>
         LET url == cur_seed'[i].url
             token == SeedSegments(url)[Len(SeedSegments(url))]
         IN  /\ links'[i] =
                  SelectSeq(LowerAll(cur_seed'[i].anchors),
                            LAMBDA link :
                              /\ pattern_story_match(token, link)
                              /\ \E k \in DOMAIN HostLabels(url) :
                                   Contains(link, HostLabels(url)[k])
                              /\ PassesFilter(link))
             /\ NewsExample(url, cur_seed'[i].anchors) => links'[i] = <<LinkNews>>]_vars

\* C15 amended: get_links returns the lower-cased hrefs that match the pattern
\* built from the last piece of the seed's url_publisher, hold one of its
\* dot-separated pieces and pass the filter, in page order; the example
\* returns only http://news.example/a/1.
C15_KeptIffPatternAndPublisherPiece ==
  [][\A i \in Inst :
       (GetLinksStep(i) /\ ~cur_seed'[i].raised) =>
         LET url == cur_seed'[i].url
         IN  /\ links'[i] =
                  SelectSeq(LowerAll(cur_seed'[i].anchors),
                            LAMBDA link : SameSite(url, link) /\ PassesFilter(link))
             /\ NewsExample(url, cur_seed'[i].anchors) => links'[i] = <<LinkNews>>]_vars

\* get_links has returned from the run of the example
C15_NewsExampleReturned ==
  \E i \in Inst :
    /\ pc[i] = "link_loop"
    /\ NewsExample(cur_seed[i].url, cur_seed[i].anchors)
    /\ links[i] = <<LinkNews>>

\* instance i is in wait_and_lock_file
Waiting(i) == pc[i] \in {"lock", "sleep"}

\* C16: an instance in wait_and_lock_file stays there until its flock
\* succeeds, and it succeeds only when no other instance holds the lock; when
\* the holders release the lock, every waiting instance gets the lock in the
\* end and starts its seed loop.
C16_WaitsThenAcquires ==
  /\ [][\A i \in Inst :
          Waiting(i) =>
            \/ Waiting(i)'
            \/ pc'[i] = "seed_loop" /\ i \in locks' /\ locks \ {i} = {}]_vars
  /\ \A i \in Inst : Waiting(i) ~> (pc[i] = "seed_loop" /\ i \in locks)

\* an instance was refused the lock and sleeps; the holder has since released
\* the lock and ended
C16_RefusedThenFree ==
  \E i, j \in Inst :
    /\ pc[i] = "sleep"
    /\ i \notin preds[j] /\ j \notin preds[i]
    /\ acquired[j] /\ pc[j] \in Ended
    /\ locks = {}

\* C17: a run works only between its lock and its release: it is in its seed
\* or link loop only while it holds the lock, it has fetched, buffered and
\* written nothing before it got the lock, and every write to the ledger file
\* is made while the writer holds the lock, none after the release.
C17_WorkOnlyUnderLock ==
  /\ phys = NoWrite \/ phys.by \in phys.locks
  /\ \A i \in Inst :
       /\ pc[i] \in {"seed_loop", "link_loop"} => i \in locks
       /\ ~acquired[i] =>
            /\ cur_seed[i] = NoSeed
            /\ crawl_log[i] = <<>>
            /\ buf[i] = <<>>
            /\ persisted[i] = {}

\* C18: once loaded, the crawled set of a run changes only in the link loop,
\* and only by gaining the link at the head of the list; the step that calls
\* get_links leaves it as it is.
C18_CrawledSetOnlyGrows ==
  [][\A i \in Inst :
       pc[i] /= "init" =>
         /\ urls_crawled[i] \subseteq urls_crawled'[i]
         /\ urls_crawled'[i] /= urls_crawled[i] =>
              /\ pc[i] = "link_loop" /\ links[i] /= <<>>
              /\ urls_crawled'[i] = urls_crawled[i] \cup {Head(links[i])}
         /\ GetLinksStep(i) => urls_crawled'[i] = urls_crawled[i]]_vars

\* a run has added a link to the set it loaded
C18_CrawledSetGrew ==
  \E i \in Inst :
    /\ loaded[i] /= {}
    /\ loaded[i] \subseteq urls_crawled[i]
    /\ urls_crawled[i] /= loaded[i]

\* C19: a run that got the lock ends; the seed loop takes each seed once and
\* never takes it back, the link loop moves down the returned list one link
\* at a time, and a run that ends without an exception has no seed and no
\* link left.
C19_RunEnds ==
  /\ \A i \in Inst : acquired[i] ~> (pc[i] \in Ended)
  /\ [][\A i \in Inst :
          pc[i] /= "init" =>
            /\ urls_to_crawl'[i] \subseteq urls_to_crawl[i]
            /\ urls_to_crawl'[i] /= urls_to_crawl[i] =>
                 /\ pc[i] = "seed_loop"
                 /\ Cardinality(urls_to_crawl'[i]) = Cardinality(urls_to_crawl[i]) - 1
            /\ GetLinksStep(i) =>
                 cur_seed'[i].url \in urls_to_crawl[i] \ urls_to_crawl'[i]
            /\ (pc[i] = "link_loop" /\ links'[i] /= links[i]) =>
                 links'[i] = Tail(links[i])]_vars
  /\ [](\A i \in Inst :
          pc[i] = "done" => urls_to_crawl[i] = {} /\ links[i] = <<>>)

\* a run that got the lock and crawled has ended with its seeds exhausted
C19_EndedAfterAllSeeds ==
  \E i \in Inst :
    /\ pc[i] = "done"
    /\ acquired[i]
    /\ crawl_log[i] /= <<>>
    /\ urls_to_crawl[i] = {}

\* text p is the beginning of text t
IsPrefix(p, t) == Len(p) <= Len(t) /\ SubSeq(t, 1, Len(p)) = p

\* C20: a step never removes a file, changes no file but the ledger file, and
\* leaves what the ledger file held at the beginning of what it holds next.
C20_OnlyAppends ==
  [][\A f \in DOMAIN files :
       /\ f \in DOMAIN files'
       /\ f /= LEDGER => files'[f] = files[f]
       /\ f = LEDGER => IsPrefix(files[f], files'[f])]_vars

\* both runs have written lines to the ledger file
C20_TwoRunsWrote ==
  /\ \A i \in Inst : persisted[i] /= {}
  /\ files[OTHERFILE] = OtherContent
====
